---- MODULE Spec2Model ----
(***************************************************************************)
(* Model of pg_db_tools.sql_renderer: one run of SqlRenderer.render over a *)
(* Database, from the construction of the renderer to the last chunk       *)
(* written to out_file.                                                    *)
(*                                                                         *)
(* A string is a sequence of tokens.  Every character that a property      *)
(* inspects (quotes, separators, the characters of names, labels and       *)
(* descriptions) is a token of its own; the fixed words of a format        *)
(* template are kept as one token each.  Concatenating the tokens of a     *)
(* chunk gives the Python string.                                          *)
(***************************************************************************)
EXTENDS Integers, Sequences, FiniteSets, TLC

\* Longest database.objects and database.extensions the model draws.
MaxObjects == 3
MaxExtensions == 2

----------------------------------------------------------------------------
(* Strings *)

None == <<>>

SQ == "'"
DQ == "\""
NL == "\n"

RECURSIVE Concat(_)
\* ''.join(parts)
Concat(parts) ==
    IF parts = <<>> THEN <<>> ELSE Head(parts) \o Concat(Tail(parts))

RECURSIVE Join(_, _)
\* sep.join(parts)
Join(sep, parts) ==
    IF parts = <<>> THEN <<>>
    ELSE IF Len(parts) = 1 THEN parts[1]
    ELSE parts[1] \o sep \o Join(sep, Tail(parts))

Digit(d) == <<"0", "1", "2", "3", "4", "5", "6", "7", "8", "9">>[d + 1]

RECURSIVE Decimal(_)
\* '{}'.format(n) of a natural number
Decimal(n) ==
    IF n < 10 THEN <<Digit(n)>> ELSE Decimal(n \div 10) \o <<Digit(n % 10)>>

UpperChar(c) ==
    CASE c = "a" -> "A" [] c = "c" -> "C" [] c = "d" -> "D" [] c = "e" -> "E"
      [] c = "s" -> "S" [] OTHER -> c

\* str.upper()
Upper(s) == [i \in 1..Len(s) |-> UpperChar(s[i])]

Ord(c) ==
    CASE c = "a" -> 97 [] c = "b" -> 98 [] c = "c" -> 99 [] c = "d" -> 100
      [] c = "e" -> 101 [] c = "o" -> 111 [] c = "p" -> 112 [] c = "s" -> 115
      [] c = "t" -> 116 [] OTHER -> 0

RECURSIVE StrLess(_, _)
\* a < b on Python strings
StrLess(a, b) ==
    IF b = <<>> THEN FALSE
    ELSE IF a = <<>> THEN TRUE
    ELSE IF Ord(Head(a)) # Ord(Head(b)) THEN Ord(Head(a)) < Ord(Head(b))
    ELSE StrLess(Tail(a), Tail(b))

quote_ident(ident) == <<DQ>> \o ident \o <<DQ>>

quote_string(string) == <<SQ>> \o string \o <<SQ>>

RECURSIVE escape_string(_)
escape_string(string) ==
    IF string = <<>> THEN <<>>
    ELSE IF Head(string) = SQ THEN <<SQ, SQ>> \o escape_string(Tail(string))
    ELSE <<Head(string)>> \o escape_string(Tail(string))

----------------------------------------------------------------------------
(* The object model read by the renderer (built by pg_types.load) *)

\* The keys of sql_renderers that the objects of the catalog have (the
\* other registered kinds are rendered the same way, by position).
Kinds == {"PgSetting", "PgSchema", "PgTable", "PgEnumType", "PgCompositeType"}

\* An identity (schema name, object name); NoRef stands for "no object".
Ident(schema, name) == [schema |-> schema, name |-> name]
NoRef == Ident(None, None)

\* A data type: what str() of it gives, and the user-defined type it
\* references (NoRef for a built-in type).
BuiltinType(text) == [text |-> text, ref |-> NoRef]
UserType(schema, name) ==
    [text |-> schema \o <<".">> \o name, ref |-> Ident(schema, name)]

Column(name, data_type) ==
    [name |-> name, data_type |-> data_type, nullable |-> TRUE, default |-> None]

\* has_name = FALSE: the object has no attribute `name`.
ForeignKey(has_name, name, columns, ref_schema, ref_table, ref_columns, on_delete) ==
    [has_name |-> has_name, name |-> name, columns |-> columns,
     schema |-> [name |-> ref_schema], ref_table |-> [name |-> ref_table],
     ref_columns |-> ref_columns, on_update |-> None, on_delete |-> on_delete]

Object(kind, schema, name) ==
    [kind |-> kind, schema |-> schema, name |-> name, value |-> None,
     columns |-> <<>>, foreign_keys |-> <<>>, description |-> None,
     labels |-> <<>>, inherits |-> NoRef]

IdentOf(o) == Ident(o.schema, o.name)

Setting == [Object("PgSetting", None, <<"t", "z">>) EXCEPT !.value = <<"u", "t", "c">>]

SchemaS == Object("PgSchema", None, <<"s">>)

\* s.a and p.b hold one foreign key to each other.
TableA ==
    [Object("PgTable", <<"s">>, <<"a">>) EXCEPT
        !.columns = <<Column(<<"i", "d">>, BuiltinType(<<"integer">>))>>,
        !.description = <<"i", "t", SQ, "s">>,
        !.foreign_keys =
            <<ForeignKey(FALSE, None, <<<<"b">>>>, <<"p">>, <<"b">>, <<<<"i", "d">>>>, None)>>]

TableB ==
    [Object("PgTable", <<"p">>, <<"b">>) EXCEPT
        !.columns = <<Column(<<"i", "d">>, BuiltinType(<<"integer">>)),
                      Column(<<"a">>, BuiltinType(<<"integer">>))>>,
        !.foreign_keys =
            <<ForeignKey(TRUE, <<"k">>, <<<<"a">>>>, <<"s">>, <<"a">>, <<<<"i", "d">>>>,
                         <<"c", "a", "s", "c", "a", "d", "e">>)>>]

\* s.t has a column of the enum type s.e and two foreign keys.
TableT ==
    [Object("PgTable", <<"s">>, <<"t">>) EXCEPT
        !.columns = <<Column(<<"e">>, UserType(<<"s">>, <<"e">>))>>,
        !.foreign_keys =
            <<ForeignKey(TRUE, <<"k">>, <<<<"e">>>>, <<"s">>, <<"a">>, <<<<"i", "d">>>>, None),
              ForeignKey(FALSE, None, <<<<"e">>>>, <<"p">>, <<"b">>, <<<<"a">>>>, None)>>]

EnumE ==
    [Object("PgEnumType", <<"s">>, <<"e">>) EXCEPT
        !.labels = <<<<"o">>, <<"b", SQ, "c">>>>]

\* s.c and s.d reference each other as a field type.
CompositeC ==
    [Object("PgCompositeType", <<"s">>, <<"c">>) EXCEPT
        !.columns = <<Column(<<"d">>, UserType(<<"s">>, <<"d">>))>>]

CompositeD ==
    [Object("PgCompositeType", <<"s">>, <<"d">>) EXCEPT
        !.columns = <<Column(<<"c">>, UserType(<<"s">>, <<"c">>))>>]

\* An object whose type is no key of sql_renderers.
Other == Object("PgOther", <<"s">>, <<"o">>)

Catalog ==
    {Setting, SchemaS, TableA, TableB, TableT, EnumE, CompositeC, CompositeD, Other}

ExtensionNames == {<<"hstore">>, <<"postgis">>, <<"pgcrypto">>}

IsInjective(seq) == \A i, j \in 1..Len(seq) : seq[i] = seq[j] => i = j

SeqsUpTo(S, n) == UNION {[1..k -> S] : k \in 0..n}

ObjectLists == {seq \in SeqsUpTo(Catalog, MaxObjects) : IsInjective(seq)}

ExtensionLists == {seq \in SeqsUpTo(ExtensionNames, MaxExtensions) : IsInjective(seq)}

SchemaNames(objects) ==
    {objects[i].schema : i \in {j \in 1..Len(objects) : objects[j].kind = "PgTable"}}
        \cup {objects[i].name : i \in {j \in 1..Len(objects) : objects[j].kind = "PgSchema"}}

\* database.schemas: name -> schema, each schema holding its tables in
\* declaration order.
SchemasOf(objects) ==
    [n \in SchemaNames(objects) |->
        [name |-> n,
         tables |-> SelectSeq(objects, LAMBDA o : o.kind = "PgTable" /\ o.schema = n)]]

Database(extensions, objects) ==
    [extensions |-> extensions, objects |-> objects, schemas |-> SchemasOf(objects)]

----------------------------------------------------------------------------
(* Per-kind renderers: each gives the sequence of chunks it yields *)

Map(f(_), seq) == [i \in 1..Len(seq) |-> f(seq[i])]

render_setting_sql(pg_setting) ==
    << <<"DO $$ BEGIN">>,
       <<"EXECUTE 'ALTER DATABASE ' || current_database() || ' SET ">>
           \o pg_setting.name \o <<" TO ">> \o pg_setting.value \o <<"';">>,
       <<"END; $$;", NL>>,
       <<"SET ">> \o pg_setting.name \o <<" TO ">> \o pg_setting.value \o <<";">> >>

render_column_definition(column) ==
    Join(<<" ">>,
         <<quote_ident(column.name), column.data_type.text>>
             \o (IF column.nullable = FALSE THEN << <<"NOT NULL">> >> ELSE <<>>)
             \o (IF column.default # None
                 THEN << <<"DEFAULT ">> \o column.default >> ELSE <<>>))

render_composite_type_column_definition(column) ==
    quote_ident(column.name) \o <<" ">> \o column.data_type.text

\* The tables of the catalog have no primary key and no unique, check or
\* exclude constraint: the columns are the only components.
table_defining_components(table) ==
    Map(LAMBDA column_data : <<"  ">> \o render_column_definition(column_data),
        table.columns)

\* The tables of the catalog have no index, owner or privilege.
render_table_sql(table) ==
    LET options == <<>>
        post_options ==
            IF table.inherits # NoRef
            THEN << <<"INHERITS (">> \o quote_ident(table.inherits.schema)
                      \o <<".">> \o quote_ident(table.inherits.name) \o <<")">> >>
            ELSE <<>>
        ident == quote_ident(table.schema) \o <<".">> \o quote_ident(table.name)
    IN  << <<"CREATE TABLE ">> \o Concat(options) \o ident \o <<NL, "(", NL>>
             \o Join(<<",", NL>>, table_defining_components(table))
             \o <<NL, ")">> \o Join(<<" ">>, post_options) \o <<";", NL>> >>
        \o (IF table.description # None
            THEN << <<"COMMENT ON TABLE ">> \o ident \o <<" IS ">>
                      \o quote_string(escape_string(table.description))
                      \o <<";", NL>> >>
            ELSE <<>>)

render_composite_type_sql(pg_composite_type) ==
    << <<"CREATE TYPE ">>
         \o quote_ident(pg_composite_type.schema) \o <<".">>
         \o quote_ident(pg_composite_type.name)
         \o <<" AS (", NL>>
         \o Join(<<",", NL>>,
                 Map(LAMBDA column_data :
                         <<"  ">> \o render_composite_type_column_definition(column_data),
                     pg_composite_type.columns))
         \o <<NL, ");", NL>> >>

render_enum_type_sql(pg_enum_type) ==
    << <<"CREATE TYPE ">>
         \o quote_ident(pg_enum_type.schema) \o <<".">> \o quote_ident(pg_enum_type.name)
         \o <<" AS ENUM (", NL>>
         \o Join(<<",", NL>>,
                 Map(LAMBDA label : <<"  ">> \o quote_string(label), pg_enum_type.labels))
         \o <<NL, ");", NL>> >>

render_schema_sql(pg_schema) ==
    << <<"CREATE SCHEMA ", "IF NOT EXISTS", " ">> \o quote_ident(pg_schema.name) \o <<";">> >>

\* sql_renderers[type(pg_object)](pg_object), for a registered type
sql_renderers(pg_object) ==
    CASE pg_object.kind = "PgSetting" -> render_setting_sql(pg_object)
      [] pg_object.kind = "PgSchema" -> render_schema_sql(pg_object)
      [] pg_object.kind = "PgTable" -> render_table_sql(pg_object)
      [] pg_object.kind = "PgCompositeType" -> render_composite_type_sql(pg_object)
      [] pg_object.kind = "PgEnumType" -> render_enum_type_sql(pg_object)

\* foreign_key.get_name(x): the name of the schema or table x
get_name(x) == x.name

\* Variant: the synthesized name counts the foreign keys from 1.
render_foreign_key_one_based(index, schema, table, foreign_key) ==
    LET key_name ==
            IF foreign_key.has_name THEN foreign_key.name
            ELSE schema.name \o <<"_">> \o table.name \o <<"_fk_">> \o Decimal(index + 1)
    IN  << <<"ALTER TABLE ">> \o quote_ident(schema.name) \o <<".">>
             \o quote_ident(table.name) \o <<" ">>
             \o <<"ADD CONSTRAINT ">> \o quote_ident(key_name) \o <<" ">>
             \o <<"FOREIGN KEY (">> \o Join(<<", ">>, foreign_key.columns) \o <<") ">>
             \o <<"REFERENCES ">> \o quote_ident(get_name(foreign_key.schema)) \o <<".">>
             \o quote_ident(get_name(foreign_key.ref_table))
             \o <<" (">> \o Join(<<", ">>, foreign_key.ref_columns) \o <<")">>
             \o (IF foreign_key.on_update # None
                 THEN <<" ON UPDATE ">> \o Upper(foreign_key.on_update) ELSE <<>>)
             \o (IF foreign_key.on_delete # None
                 THEN <<" ON DELETE ">> \o Upper(foreign_key.on_delete) ELSE <<>>)
             \o <<";">> >>

render_foreign_key(index, schema, table, foreign_key) ==
    LET key_name ==
            IF foreign_key.has_name THEN foreign_key.name
            ELSE schema.name \o <<"_">> \o table.name \o <<"_fk_">> \o Decimal(index)
    IN  << <<"ALTER TABLE ">> \o quote_ident(schema.name) \o <<".">>
             \o quote_ident(table.name) \o <<" ">>
             \o <<"ADD CONSTRAINT ">> \o quote_ident(key_name) \o <<" ">>
             \o <<"FOREIGN KEY (">> \o Join(<<", ">>, foreign_key.columns) \o <<") ">>
             \o <<"REFERENCES ">> \o quote_ident(get_name(foreign_key.schema)) \o <<".">>
             \o quote_ident(get_name(foreign_key.ref_table))
             \o <<" (">> \o Join(<<", ">>, foreign_key.ref_columns) \o <<")">>
             \o (IF foreign_key.on_update # None
                 THEN <<" ON UPDATE ">> \o Upper(foreign_key.on_update) ELSE <<>>)
             \o (IF foreign_key.on_delete # None
                 THEN <<" ON DELETE ">> \o Upper(foreign_key.on_delete) ELSE <<>>)
             \o <<";">> >>

\* Variant: the extensions are walked from the last to the first.
create_extension_statements_reversed(if_not_exists_option, database) ==
    LET options == IF if_not_exists_option THEN << <<"IF NOT EXISTS">> >> ELSE <<>>
        n == Len(database.extensions)
    IN  [i \in 1..n |->
            <<"CREATE EXTENSION ">>
                \o Concat(Map(LAMBDA option : option \o <<" ">>, options))
                \o database.extensions[n + 1 - i] \o <<";", NL>>]

create_extension_statements(if_not_exists_option, database) ==
    LET options == IF if_not_exists_option THEN << <<"IF NOT EXISTS">> >> ELSE <<>>
    IN  Map(LAMBDA extension_name :
                <<"CREATE EXTENSION ">>
                    \o Concat(Map(LAMBDA option : option \o <<" ">>, options))
                    \o extension_name \o <<";", NL>>,
            database.extensions)

----------------------------------------------------------------------------
(* The dependency graph (pg_db_tools.graph) *)

\* The objects that o references: the user-defined types of its columns or
\* fields, the table it inherits from, and its owning schema when that
\* schema is declared as an object.
References(o, objects) ==
    ({o.columns[i].data_type.ref : i \in 1..Len(o.columns)} \ {NoRef})
        \cup ({o.inherits} \ {NoRef})
        \cup {Ident(None, o.schema) : j \in
                {k \in 1..Len(objects) :
                    objects[k].kind = "PgSchema" /\ objects[k].name = o.schema}}

\* Nodes are object identities; an edge <<u, v>> says u must be created
\* after v.  Building the graph fails when a referenced object is absent.
database_to_graph(database) ==
    LET objects == database.objects
        nodes == {IdentOf(objects[i]) : i \in 1..Len(objects)}
        edges == UNION {{<<IdentOf(objects[i]), v>> : v \in References(objects[i], objects)}
                            : i \in 1..Len(objects)}
    IN  [raised |-> \E e \in edges : e[2] \notin nodes, nodes |-> nodes, edges |-> edges]

----------------------------------------------------------------------------
(* SqlRenderer *)

RECURSIVE SortedByName(_)
\* sorted(S, key=lambda s: s.name)
SortedByName(S) ==
    IF S = {} THEN <<>>
    ELSE LET first == CHOOSE x \in S : \A y \in S : ~StrLess(y.name, x.name)
         IN  <<first>> \o SortedByName(S \ {first})

\* Variant: the loop over the schemas stops after the first schema.
foreign_key_chunk_sets_first_schema(database) ==
    LET schemas == SortedByName({database.schemas[n] : n \in DOMAIN database.schemas})
        of_table(schema, table) ==
            [i \in 1..Len(table.foreign_keys) |->
                render_foreign_key(i - 1, schema, table, table.foreign_keys[i])]
        of_schema(schema) ==
            Concat([t \in 1..Len(schema.tables) |-> of_table(schema, schema.tables[t])])
    IN  IF schemas = <<>> THEN <<>> ELSE of_schema(schemas[1])

\* The foreign-key loop of render_chunk_sets: one chunk set per foreign key.
foreign_key_chunk_sets(database) ==
    LET schemas == SortedByName({database.schemas[n] : n \in DOMAIN database.schemas})
        of_table(schema, table) ==
            [i \in 1..Len(table.foreign_keys) |->
                render_foreign_key(i - 1, schema, table, table.foreign_keys[i])]
        of_schema(schema) ==
            Concat([t \in 1..Len(schema.tables) |-> of_table(schema, schema.tables[t])])
    IN  Concat([s \in 1..Len(schemas) |-> of_schema(schemas[s])])

RECURSIVE object_chunk_sets(_)
\* The object loop of render_chunk_sets: the chunk sets yielded until the
\* lookup in sql_renderers raises KeyError.
object_chunk_sets(objects) ==
    IF objects = <<>> THEN [raised |-> FALSE, sets |-> <<>>]
    ELSE IF Head(objects).kind \notin Kinds THEN [raised |-> TRUE, sets |-> << <<<<NL>>>> >>]
    ELSE LET rest == object_chunk_sets(Tail(objects))
         IN  [raised |-> rest.raised,
              sets |-> << <<<<NL>>>>, sql_renderers(Head(objects)) >> \o rest.sets]

\* Variant: the foreign-key loop runs before the object loop.
render_chunk_sets_foreign_keys_first(option, database) ==
    LET per_object == object_chunk_sets(database.objects)
    IN  [raised |-> per_object.raised,
         sets |-> <<create_extension_statements(option, database)>>
                    \o foreign_key_chunk_sets(database)
                    \o per_object.sets]

\* The generator: the chunk sets it yields, and whether it then raises.
render_chunk_sets(option, database) ==
    LET per_object == object_chunk_sets(database.objects)
    IN  [raised |-> per_object.raised,
         sets |-> <<create_extension_statements(option, database)>>
                    \o per_object.sets
                    \o (IF per_object.raised THEN <<>>
                        ELSE foreign_key_chunk_sets(database))]

\* An iterator of chunks: the call that makes it may raise; otherwise it
\* gives its items and may raise after the last of them.
EmptyStream == [error_at_call |-> FALSE, items |-> <<>>, error_at_end |-> FALSE]

\* Variant: chain.from_iterable(generator), which runs the generator only as
\* the chunks are consumed.
chain_from_iterable(generator) ==
    [error_at_call |-> FALSE,
     items |-> Concat(generator.sets),
     error_at_end |-> generator.raised]

\* chain(*generator): the generator is run to its end when the call is made.
chain_star(generator) ==
    [error_at_call |-> generator.raised,
     items |-> IF generator.raised THEN <<>> ELSE Concat(generator.sets),
     error_at_end |-> FALSE]

RECURSIVE Interleave(_, _)
Interleave(sep, items) ==
    IF Len(items) <= 1 THEN items
    ELSE <<Head(items), sep>> \o Interleave(sep, Tail(items))

\* pg_db_tools.iter_join: the items with sep between each two of them
iter_join(sep, stream) == [stream EXCEPT !.items = Interleave(sep, stream.items)]

VARIABLES
    if_not_exists,    \* SqlRenderer.if_not_exists
    database,         \* the Database handed to render
    pc,               \* position of the run
    graph,            \* local `graph` of render
    rendered_chunks,  \* local `rendered_chunks` of render
    out,              \* what out_file has received, one entry per write
    error             \* the exception that ended the run

vars == <<if_not_exists, database, pc, graph, rendered_chunks, out, error>>

Init ==
    /\ if_not_exists = FALSE
    /\ database \in {Database(e, o) : e \in ExtensionLists, o \in ObjectLists}
    /\ pc = "constructed"
    /\ graph = {}
    /\ rendered_chunks = EmptyStream
    /\ out = <<>>
    /\ error = "none"

\* The caller sets the option before it calls render.
set_if_not_exists ==
    /\ pc = "constructed"
    /\ if_not_exists = FALSE
    /\ if_not_exists' = TRUE
    /\ UNCHANGED <<database, pc, graph, rendered_chunks, out, error>>

\* render, line 314: graph = database_to_graph(database)
render ==
    /\ pc = "constructed"
    /\ LET g == database_to_graph(database)
       IN  IF g.raised
           THEN /\ pc' = "failed"
                /\ error' = "UnresolvedReferenceError"
                /\ graph' = graph
           ELSE /\ pc' = "render_chunks"
                /\ error' = error
                /\ graph' = g.edges
    /\ UNCHANGED <<if_not_exists, database, rendered_chunks, out>>

\* render, line 316: rendered_chunks = self.render_chunks(database)
render_chunks ==
    /\ pc = "render_chunks"
    /\ LET stream == chain_star(render_chunk_sets(if_not_exists, database))
       IN  IF stream.error_at_call
           THEN /\ pc' = "failed"
                /\ error' = "KeyError"
                /\ rendered_chunks' = rendered_chunks
           ELSE /\ pc' = "writelines"
                /\ error' = error
                /\ rendered_chunks' = iter_join(<<NL>>, stream)
    /\ UNCHANGED <<if_not_exists, database, graph, out>>

\* render, line 318: out_file.writelines(rendered_chunks), one chunk a step
writelines ==
    /\ pc = "writelines"
    /\ IF Len(out) < Len(rendered_chunks.items)
       THEN /\ out' = Append(out, rendered_chunks.items[Len(out) + 1])
            /\ UNCHANGED <<pc, error>>
       ELSE IF rendered_chunks.error_at_end
       THEN /\ pc' = "failed"
            /\ error' = "KeyError"
            /\ out' = out
       ELSE /\ pc' = "done"
            /\ UNCHANGED <<out, error>>
    /\ UNCHANGED <<if_not_exists, database, graph, rendered_chunks>>

Next == set_if_not_exists \/ render \/ render_chunks \/ writelines

Spec == Init /\ [][Next]_vars

TypeOK ==
    /\ if_not_exists \in BOOLEAN
    /\ pc \in {"constructed", "render_chunks", "writelines", "done", "failed"}
    /\ error \in {"none", "UnresolvedReferenceError", "KeyError"}

----------------------------------------------------------------------------
(* Reading the output *)

Range(seq) == {seq[i] : i \in 1..Len(seq)}

\* The chunks written so far that are no separator.
Statements == SelectSeq(out, LAMBDA chunk : chunk # <<NL>>)

Has(chunk, token) == \E i \in 1..Len(chunk) : chunk[i] = token

StartsWith(chunk, token) == Len(chunk) > 0 /\ chunk[1] = token

IsForeignKeyStatement(chunk) ==
    StartsWith(chunk, "ALTER TABLE ") /\ Has(chunk, "ADD CONSTRAINT ")

IsExtensionStatement(chunk) == StartsWith(chunk, "CREATE EXTENSION ")

IsSchemaStatement(chunk) == StartsWith(chunk, "CREATE SCHEMA ")

IsCreateTable(chunk) == StartsWith(chunk, "CREATE TABLE ")

First(chunk, token) == CHOOSE i \in 1..Len(chunk) :
    chunk[i] = token /\ \A j \in 1..(i - 1) : chunk[j] # token

Last(chunk, token) == CHOOSE i \in 1..Len(chunk) :
    chunk[i] = token /\ \A j \in (i + 1)..Len(chunk) : chunk[j] # token

\* The tokens of chunk strictly between the first `from` and the first `to`.
Between(chunk, from, to) == SubSeq(chunk, First(chunk, from) + 1, First(chunk, to) - 1)

Objects == database.objects

Registered(o) == o.kind \in Kinds

Tables == SelectSeq(Objects, LAMBDA o : o.kind = "PgTable")

ForeignKeyCount == Len(Concat([i \in 1..Len(Tables) |-> Tables[i].foreign_keys]))

\* Every chunk rendered for an object of database.objects.
ObjectChunks ==
    UNION {Range(sql_renderers(Objects[i])) : i \in {j \in 1..Len(Objects) : Registered(Objects[j])}}

\* Where the first chunk of the block of object o stands in the output.
BlockPos(o) == CHOOSE i \in 1..Len(out) : out[i] = sql_renderers(o)[1]

ObjectOf(ident) == CHOOSE o \in Range(Objects) : IdentOf(o) = ident

Count(seq, P(_)) == Len(SelectSeq(seq, P))

NothingUnsupported == \A i \in 1..Len(Objects) : Registered(Objects[i])

AllResolved ==
    \A i \in 1..Len(Objects) :
        References(Objects[i], Objects) \subseteq {IdentOf(Objects[j]) : j \in 1..Len(Objects)}

----------------------------------------------------------------------------
(* Claims *)

RECURSIVE Reach(_, _)
\* The nodes reached from the nodes of `from` over the edges of g.
Reach(g, from) ==
    LET next == from \cup {e[2] : e \in {d \in g : d[1] \in from}}
    IN  IF next = from THEN from ELSE Reach(g, next)

Acyclic(g) == \A e \in g : e[1] \notin Reach(g, {e[2]})

\* C1: at the end of a run, for every edge u -> v of the dependency graph,
\* the block of v stands strictly before the block of u in the output,
\* whatever the order of u and v in database.objects.
\* (A graph with a cycle has no such order: the claim is read on the
\* acyclic graphs.)
C1_OrderRespectsDependencies ==
    (pc = "done" /\ Acyclic(graph)) =>
        \A e \in graph : BlockPos(ObjectOf(e[2])) < BlockPos(ObjectOf(e[1]))

\* C2: in the output, every foreign-key ALTER TABLE statement stands
\* strictly after every statement rendered for an object.
C2_ForeignKeysLast ==
    \A i, j \in 1..Len(out) :
        (IsForeignKeyStatement(out[i]) /\ out[j] \in ObjectChunks) => j < i

C2_Witness ==
    /\ pc = "done"
    /\ Len(Tables) >= 2
    /\ Count(out, IsForeignKeyStatement) >= 2
    /\ Objects[Len(Objects)].kind = "PgTable"

MutualComposites ==
    \E i, j \in 1..Len(Objects) :
        /\ i # j
        /\ Objects[i].kind = "PgCompositeType"
        /\ Objects[j].kind = "PgCompositeType"
        /\ IdentOf(Objects[j]) \in References(Objects[i], Objects)
        /\ IdentOf(Objects[i]) \in References(Objects[j], Objects)

\* C3: a database with two composite types that reference each other as a
\* field type (and nothing else wrong with it) fails with
\* CyclicDependencyError and nothing is written.
C3_CycleRejected ==
    (MutualComposites /\ AllResolved /\ NothingUnsupported) =>
        /\ out = <<>>
        /\ pc # "done"
        /\ pc = "failed" => error = "CyclicDependencyError"

\* The tables are exactly two, each with one foreign key, to the other.
MutualForeignKeys ==
    /\ Len(Tables) = 2
    /\ \A i \in 1..2 :
        /\ Len(Tables[i].foreign_keys) = 1
        /\ Tables[i].foreign_keys[1].schema.name = Tables[3 - i].schema
        /\ Tables[i].foreign_keys[1].ref_table.name = Tables[3 - i].name

TableOfStatement(chunk) == Between(chunk, "ALTER TABLE ", "ADD CONSTRAINT ")

\* C4: with two tables that hold a foreign key to each other, the run does
\* not fail because of them, and its output has exactly two CREATE TABLE
\* statements followed by exactly two ADD CONSTRAINT statements, one per
\* table.
C4_MutualForeignKeys ==
    MutualForeignKeys =>
        /\ pc = "failed" => ~(NothingUnsupported /\ AllResolved)
        /\ pc = "done" =>
            /\ Count(out, IsCreateTable) = 2
            /\ Count(out, IsForeignKeyStatement) = 2
            /\ \A i, j \in 1..Len(out) :
                (IsCreateTable(out[i]) /\ IsForeignKeyStatement(out[j])) => i < j
            /\ \A t \in 1..2 : \E i \in 1..Len(out) :
                /\ IsForeignKeyStatement(out[i])
                /\ TableOfStatement(out[i]) =
                     <<DQ>> \o Tables[t].schema \o <<DQ, ".", DQ>> \o Tables[t].name \o <<DQ, " ">>

C4_Witness == pc = "done" /\ MutualForeignKeys

ExpectedStatementCount ==
    Len(database.extensions) + ForeignKeyCount
        + Len(Concat([i \in 1..Len(Objects) |-> sql_renderers(Objects[i])]))

\* C5: a run that fails has written nothing, a run over an object of an
\* unregistered kind fails, and a run that ends has written the full
\* sequence.
C5_AllOrNothing ==
    /\ pc = "failed" => out = <<>>
    /\ ~NothingUnsupported => (out = <<>> /\ pc # "done")
    /\ pc = "done" =>
        /\ ObjectChunks \subseteq Range(out)
        /\ Len(Statements) = ExpectedStatementCount

C5_Witness ==
    /\ pc = "failed"
    /\ error = "KeyError"
    /\ database.extensions # <<>>
    /\ Len(Objects) >= 2
    /\ Registered(Objects[1])
    /\ ~Registered(Objects[Len(Objects)])

\* C6: with if_not_exists set, "CREATE SCHEMA IF NOT EXISTS" is written for
\* every schema and "CREATE EXTENSION IF NOT EXISTS" for every extension;
\* with it unset, no CREATE SCHEMA and no CREATE EXTENSION statement holds
\* IF NOT EXISTS.
C6_IfNotExistsToggle ==
    pc = "done" =>
        IF if_not_exists
        THEN /\ \A i \in 1..Len(Objects) : Objects[i].kind = "PgSchema" =>
                    <<"CREATE SCHEMA ", "IF NOT EXISTS", " ", DQ>> \o Objects[i].name \o <<DQ, ";">>
                        \in Range(out)
             /\ \A i \in 1..Len(database.extensions) : \E j \in 1..Len(out) :
                    /\ IsExtensionStatement(out[j])
                    /\ Has(out[j], "IF NOT EXISTS")
                    /\ Between(out[j], " ", ";") = database.extensions[i]
        ELSE \A j \in 1..Len(out) :
                (IsSchemaStatement(out[j]) \/ IsExtensionStatement(out[j]))
                    => ~Has(out[j], "IF NOT EXISTS")

ConstraintNameOf(chunk) == Between(chunk, "ADD CONSTRAINT ", "FOREIGN KEY (")

ColumnsOf(chunk) == Between(chunk, "FOREIGN KEY (", ") ")

\* C7: the constraint of the foreign key at position i (from 0) of table t
\* in schema s is named by the explicit name of the foreign key, and by
\* <s>_<t>_fk_<i> when it has none; foreign keys never make the run fail.
C7_ForeignKeyNames ==
    /\ pc = "failed" => ~(NothingUnsupported /\ AllResolved)
    /\ pc = "done" =>
        \A t \in 1..Len(Tables) : \A i \in 1..Len(Tables[t].foreign_keys) :
            LET foreign_key == Tables[t].foreign_keys[i]
                expected ==
                    IF foreign_key.has_name THEN foreign_key.name
                    ELSE Tables[t].schema \o <<"_">> \o Tables[t].name
                            \o <<"_fk_">> \o Decimal(i - 1)
            IN  \E j \in 1..Len(out) :
                    /\ IsForeignKeyStatement(out[j])
                    /\ TableOfStatement(out[j]) =
                         <<DQ>> \o Tables[t].schema \o <<DQ, ".", DQ>>
                            \o Tables[t].name \o <<DQ, " ">>
                    /\ ColumnsOf(out[j]) = Join(<<", ">>, foreign_key.columns)
                    /\ ConstraintNameOf(out[j]) = <<DQ>> \o expected \o <<DQ, " ">>

C7_Witness ==
    /\ pc = "done"
    /\ \E t \in 1..Len(Tables) :
        /\ Len(Tables[t].foreign_keys) = 2
        /\ ~Tables[t].foreign_keys[2].has_name
        /\ \E j \in 1..Len(out) :
            /\ IsForeignKeyStatement(out[j])
            /\ ConstraintNameOf(out[j]) =
                 <<DQ>> \o Tables[t].schema \o <<"_">> \o Tables[t].name \o <<"_fk_", "1", DQ, " ">>

\* C8: in the output, the statements of every setting stand before the
\* statements of every other object, wherever the setting is declared.
C8_SettingsFirst ==
    pc = "done" =>
        \A s, o \in 1..Len(Objects) :
            (Objects[s].kind = "PgSetting" /\ Objects[o].kind # "PgSetting") =>
                \A i, j \in 1..Len(out) :
                    (out[i] \in Range(sql_renderers(Objects[s]))
                        /\ out[j] \in Range(sql_renderers(Objects[o]))) => i < j

ExtensionNameOf(chunk) == chunk[Len(chunk) - 2]

\* The statement of the foreign key at position i (from 1) of table.
ForeignKeyStatement(table, i) ==
    render_foreign_key(i - 1, [name |-> table.schema], table, table.foreign_keys[i])[1]

StatementPos(chunk) == CHOOSE p \in 1..Len(Statements) : Statements[p] = chunk

\* C9: the output starts with one CREATE EXTENSION statement per declared
\* extension, in declared order, and holds no other; the foreign-key
\* statements come last, one per table and foreign key, the foreign keys of
\* a table together and in the order of their positions.
C9_Assembly ==
    pc = "done" =>
        LET n == Len(database.extensions)
            m == Len(Statements)
        IN  /\ n <= m
            /\ \A k \in 1..n :
                /\ IsExtensionStatement(Statements[k])
                /\ ExtensionNameOf(Statements[k]) = database.extensions[k][1]
            /\ \A k \in (n + 1)..m : ~IsExtensionStatement(Statements[k])
            /\ \A k \in 1..m : IsForeignKeyStatement(Statements[k]) <=> k > m - ForeignKeyCount
            /\ \A t \in 1..Len(Tables) : \A i \in 1..Len(Tables[t].foreign_keys) :
                Count(Statements, LAMBDA c : c = ForeignKeyStatement(Tables[t], i)) = 1
            /\ \A t \in 1..Len(Tables) : \A i, j \in 1..Len(Tables[t].foreign_keys) :
                i < j => StatementPos(ForeignKeyStatement(Tables[t], i))
                            < StatementPos(ForeignKeyStatement(Tables[t], j))
            /\ \A t, u \in 1..Len(Tables) :
                t # u =>
                    \/ \A i \in 1..Len(Tables[t].foreign_keys) :
                       \A j \in 1..Len(Tables[u].foreign_keys) :
                            StatementPos(ForeignKeyStatement(Tables[t], i))
                                < StatementPos(ForeignKeyStatement(Tables[u], j))
                    \/ \A i \in 1..Len(Tables[t].foreign_keys) :
                       \A j \in 1..Len(Tables[u].foreign_keys) :
                            StatementPos(ForeignKeyStatement(Tables[u], j))
                                < StatementPos(ForeignKeyStatement(Tables[t], i))

C9_Witness ==
    /\ pc = "done"
    /\ Len(database.extensions) = 2
    /\ Len(Tables) >= 2
    /\ \E t \in 1..Len(Tables) : Len(Tables[t].foreign_keys) = 2
    /\ Objects[1].kind = "PgTable"

RECURSIVE Lines(_)
\* chunk.split('\n')
Lines(chunk) ==
    IF ~Has(chunk, NL) THEN <<chunk>>
    ELSE <<SubSeq(chunk, 1, First(chunk, NL) - 1)>>
            \o Lines(SubSeq(chunk, First(chunk, NL) + 1, Len(chunk)))

RECURSIVE QuotesPaired(_)
\* Every single quote of s is one of two adjacent single quotes.
QuotesPaired(s) ==
    IF s = <<>> THEN TRUE
    ELSE IF Head(s) # SQ THEN QuotesPaired(Tail(s))
    ELSE Len(s) >= 2 /\ s[2] = SQ /\ QuotesPaired(Tail(Tail(s)))

\* What stands between the delimiters of the single-quoted literal of line.
LiteralOf(line) == SubSeq(line, First(line, SQ) + 1, Last(line, SQ) - 1)

\* C10: in every COMMENT ON TABLE statement and every CREATE TYPE ... AS
\* ENUM statement written, the single quotes inside each single-quoted
\* literal come in adjacent pairs only.
C10_QuotesEscaped ==
    \A i \in 1..Len(out) :
        (StartsWith(out[i], "COMMENT ON TABLE ") \/ Has(out[i], " AS ENUM (")) =>
            \A l \in Range(Lines(out[i])) : Has(l, SQ) => QuotesPaired(LiteralOf(l))

====
